---- MODULE Spec2Model ----
(***************************************************************************)
(* Model of the cached data-access layer of the items service:             *)
(*   backend/src/repositories/itemRepository.js  (primary cache + watcher) *)
(*   backend/src/routes/stats.js                 (derived stats cache)     *)
(* Every await of the source is a suspension point: the I/O takes effect   *)
(* in one step and the continuation of the async function runs in a later  *)
(* step, so that other handlers and the watcher callback can interleave.   *)
(***************************************************************************)
EXTENDS Integers, Sequences, FiniteSets, Bags, TLC

\* ---------------------------------------------------------------- bounds
NumCalls == 2      \* request handlers that may be in flight at once
MaxLen == 2        \* longest collection written by a caller or an editor
MaxMtime == 2      \* modifications of the data file in one run
MaxCallbacks == 1  \* watcher callbacks suspended at their fs.stat
MaxFetches == 3    \* calls of fetchItems in one run
MaxTicks == 1      \* milliseconds that pass on the server's clock

\* ------------------------------------------------------------ data model
\* A record of items.json: the fields the modelled code reads.
\* A string is its characters; a field the record does not have reads
\* undefined.
Str(s) == [text |-> TRUE, s |-> s]
Undefined == [text |-> FALSE, s |-> << >>]

NameOf(i) == IF i % 2 = 1 THEN <<"A", "b">> ELSE <<"b">>

Item(i) == [id |-> i, price |-> 100 * i, name |-> Str(NameOf(i))]

\* req.body of POST /api/items: nothing validates it, the name may be
\* missing.
Named == [id |-> 0, price |-> 100, name |-> Str(<<"B">>)]
Nameless == [id |-> 0, price |-> 100, name |-> Undefined]

Bodies == {Named, Nameless}

NoItem == [id |-> 0, price |-> 0, name |-> Undefined]

\* The collection holding the first n records.
Prefix(n) == [i \in 1..n |-> Item(i)]

\* Collections callers write and editors save.
Collections == {Prefix(n) : n \in 0..MaxLen}

\* let cachedData = null  /  a parsed collection
NullData == [present |-> FALSE, v |-> << >>]
SomeData(c) == [present |-> TRUE, v |-> c]

\* let lastFileMtime = null  /  the Date object of an fs.stat
NullDate == [set |-> FALSE, t |-> 0]
DateObj(t) == [set |-> TRUE, t |-> t]

\* stats.js compares Dates with !==, by identity, and every fs.stat makes a
\* new Date. A reference held outside the repository is therefore modelled
\* by what the comparison can see of it: "last" when it is the very value
\* lastFileMtime holds now (the same object, or null while lastFileMtime is
\* null), "stale" when lastFileMtime has been assigned since it was taken.
SameRef == "last"
StaleRef == "stale"

\* The data file: parseable JSON, malformed text, or missing.
JsonFile(c) == [kind |-> "json", v |-> c]
BadFile == [kind |-> "bad", v |-> << >>]
NoFile == [kind |-> "nofile", v |-> << >>]

\* The outcome of an fs call that a suspended function has yet to consume.
NoResult == [ok |-> FALSE, t |-> 0, content |-> NoFile]

\* GET /api/stats answers {total, averagePrice}; the average is kept as the
\* reduced fraction avgNum / avgDen.
NullStats == [present |-> FALSE, total |-> 0, avgNum |-> 0, avgDen |-> 1]
SomeStats(n, num, den) ==
  [present |-> TRUE, total |-> n, avgNum |-> num, avgDen |-> den]

\* What a finished call handed to its caller.
NoPage ==
  [page |-> 0, limit |-> 0, total |-> 0, totalPages |-> 0, hasNext |-> FALSE,
   hasPrev |-> FALSE]

NoReturn ==
  [kind |-> "none", data |-> NullData, stats |-> NullStats, pg |-> NoPage]
ReturnedData(d) ==
  [kind |-> "data", data |-> d, stats |-> NullStats, pg |-> NoPage]
ReturnedStats(s) ==
  [kind |-> "stats", data |-> NullData, stats |-> s, pg |-> NoPage]
ReturnedVoid ==
  [kind |-> "void", data |-> NullData, stats |-> NullStats, pg |-> NoPage]
Created(it) ==
  [kind |-> "created", data |-> SomeData(<<it>>), stats |-> NullStats,
   pg |-> NoPage]
Listed(its, pg) ==
  [kind |-> "list", data |-> SomeData(its), stats |-> NullStats, pg |-> pg]
Threw(e) ==
  [kind |-> e, data |-> NullData, stats |-> NullStats, pg |-> NoPage]

\* req.query of GET /api/items: q, page and limit are strings or missing.
NoQuery == [q |-> Undefined, page |-> Undefined, limit |-> Undefined]

Queries ==
  [q : {Undefined, Str(<<"a">>), Str(<<"B">>)},
   page : {Undefined, Str(<<"2">>)},
   limit : {Undefined, Str(<<"1">>), Str(<<"2">>)}]

\* A request handler suspended at an await: the operation it runs (op), the
\* await it is at (pc), the outcome of the fs call it awaits (io), the
\* argument of writeData (data), currentMtime of stats.js L299 (cur), and,
\* for the properties, the situation it began in (after), whether its
\* L73 emptied a filled cache (cleared), whether no other handler has
\* been suspended while it ran (alone), and, for writeData, whether nobody
\* else has modified the file since its fs.writeFile took effect (quiet).
\* A POST carries its item, and whether no other POST has run and nobody
\* else has modified the file while it ran (clean).
NewCall(op, pc) ==
  [op |-> op, pc |-> pc, io |-> NoResult, data |-> << >>, cur |-> StaleRef,
   after |-> FALSE, cleared |-> FALSE, alone |-> FALSE, quiet |-> FALSE,
   item |-> NoItem, clean |-> FALSE]

\* What the latest step did to a handler: nothing, started one that is now
\* suspended ("start"), or completed one ("done") with result ret.
\* For the properties it also records: the situation the call began in
\* (after), whether the aggregate was computed anew (recomputed), what its
\* readData resolved to (read), what getLastModifiedTime returned (token),
\* the query of a listing (req),
\* and, for a call that began in this very step, the history it began in
\* (before).
NoBefore == [lastRead |-> NullData, unchanged |-> FALSE, got |-> 0]

NoCall ==
  [ev |-> "none", op |-> "none", ret |-> NoReturn, after |-> FALSE,
   cleared |-> FALSE, alone |-> FALSE, quiet |-> FALSE,
   recomputed |-> FALSE, read |-> NullData, token |-> NullDate,
   req |-> NoQuery, before |-> NoBefore]

\* useState([]) and useState(null) of DataContext.js L6-7 before any
\* response is applied; a response is known by the request it answers.
NoResponse == 0

VARIABLES
  file,           \* content of items.json (DATA_PATH)
  fileMtime,      \* its modification time
  cachedData,     \* itemRepository.js:8
  lastFileMtime,  \* itemRepository.js:9
  initPc,         \* position of initFileWatcher
  initIo,         \* result of its fs.stat
  watching,       \* fs.watch is established
  pending,        \* fs.watch has a 'change' event to deliver
  callbacks,      \* stat results held by suspended watcher callbacks
  cachedStats,    \* stats.js: let cachedStats
  cachedStatsMtime, \* stats.js: let cachedStatsMtime
  calls,          \* the suspended request handlers, a bag
  now,            \* Date.now() of the server
  items,          \* DataContext.js:6
  pagination,     \* DataContext.js:7
  loading,        \* DataContext.js:8
  fetches,        \* the calls of fetchItems, by the order they were made
  last,           \* what the latest step did to a handler
  hist            \* history of the run, read by the properties only

vars ==
  <<file, fileMtime, cachedData, lastFileMtime, initPc, initIo, watching,
    pending, callbacks, cachedStats, cachedStatsMtime, calls, now, items,
    pagination, loading, fetches, last, hist>>

frontVars == <<items, pagination, loading, fetches>>

repoVars == <<cachedData, lastFileMtime>>
statsVars == <<cachedStats, cachedStatsMtime>>
storeVars == <<file, fileMtime>>
watchVars == <<watching, pending, callbacks>>
initVars == <<initPc, initIo>>

\* ------------------------------------------------------------- helpers
Count == BagCardinality(calls)
InFlight == BagToSet(calls)
Without(c) == calls (-) SetToBag({c})
With(b, d) == b (+) SetToBag({d})

\* A handler d suspends at its first await next to the handlers of b, which
\* from then on have not run alone.
Join(b, d) ==
  IF b = EmptyBag
    THEN SetToBag({[d EXCEPT !.alone = TRUE]})
    ELSE With(BagOfAll(LAMBDA x : [x EXCEPT !.alone = FALSE], b), d)

\* What a step does to every suspended handler: when it assigns
\* lastFileMtime a new Date (aged) no reference taken before is that Date;
\* when it modifies the file (modified) no call began after the modification.
Retag(b, aged, modified) ==
  IF aged \/ modified
    THEN BagOfAll(LAMBDA x : [x EXCEPT !.cur = IF aged THEN StaleRef ELSE @,
                                       !.after = ~modified /\ @,
                                       !.quiet = ~modified /\ @,
                                       !.clean = ~modified /\ @], b)
    ELSE b

\* fs.stat(DATA_PATH): rejects when the file is missing.
Stat ==
  IF file.kind = "nofile" THEN NoResult
  ELSE [ok |-> TRUE, t |-> fileMtime, content |-> NoFile]

\* fs.readFile(DATA_PATH, 'utf8'); t is the version read, for the history.
ReadFile ==
  IF file.kind = "nofile" THEN NoResult
  ELSE [ok |-> TRUE, t |-> fileMtime, content |-> file]

\* JSON.stringify(data, null, 2) and JSON.parse(raw)
Stringify(c) == JsonFile(c)
Parses(raw) == raw.kind = "json"
Parse(raw) == raw.v

\* fs.watch reports a modification of the watched file as an event of type
\* kind. L15: the callback ignores every event that is not a 'change', at
\* whatever time it is delivered, so only 'change' events are kept pending.
Emit(kind) == pending \/ (watching /\ kind = "change")

RECURSIVE GCD(_, _)
GCD(a, b) == IF b = 0 THEN a ELSE GCD(b, a % b)

RECURSIVE SumPrices(_)
SumPrices(c) ==
  IF Len(c) = 0 THEN 0 ELSE c[1].price + SumPrices(Tail(c))

\* utils/stats.js mean over the prices, as a reduced fraction.
Mean(c) ==
  LET s == SumPrices(c)
      g == GCD(s, Len(c))
  IN  <<s \div g, Len(c) \div g>>

\* utils/stats.js mean rejects an empty list of prices.
MeanThrows(c) == Len(c) = 0

\* stats.js calculateStats, applied to the collection readData resolved to.
StatsOf(c) == SomeStats(Len(c), Mean(c)[1], Mean(c)[2])

\* --------------------------------------------- GET /api/items, L212-240
\* String.prototype.toLowerCase on the letters in use.
ToLower(ch) == IF ch = "A" THEN "a" ELSE IF ch = "B" THEN "b" ELSE ch

Lower(s) == [i \in 1..Len(s) |-> ToLower(s[i])]

\* String.prototype.includes.
Includes(s, sub) ==
  \E k \in 0..(Len(s) - Len(sub)) : SubSeq(s, k + 1, k + Len(sub)) = sub

\* parseInt of a string of decimal digits; of a number, the number.
Digits == <<"0", "1", "2", "3", "4", "5", "6", "7", "8", "9">>

DigitOf(ch) == (CHOOSE k \in 1..Len(Digits) : Digits[k] = ch) - 1

RECURSIVE ParseInt(_)
ParseInt(s) ==
  IF Len(s) = 0 THEN 0
  ELSE 10 * ParseInt(SubSeq(s, 1, Len(s) - 1)) + DigitOf(s[Len(s)])

\* Math.ceil(a / b) for a >= 0, b >= 1.
Ceil(a, b) == (a + b - 1) \div b

\* Array.prototype.slice(from, to), from and to not negative.
Slice(s, from, to) == SubSeq(s, from + 1, IF to < Len(s) THEN to ELSE Len(s))

\* L212: const { limit = 10, page = 1, q } = req.query; L221-222 parseInt.
LimitNum(req) == IF req.limit.text THEN ParseInt(req.limit.s) ELSE 10
PageNum(req) == IF req.page.text THEN ParseInt(req.page.s) ELSE 1

\* L216: if (q), a string that is not empty.
Searches(req) == req.q.text /\ req.q.s # << >>

\* L217: item.name.toLowerCase() throws on an item without a name.
FilterThrows(c, req) ==
  Searches(req) /\ \E i \in 1..Len(c) : ~c[i].name.text

\* L213-218: the items whose name includes q, both in lower case.
Filtered(c, req) ==
  IF Searches(req)
    THEN SelectSeq(c, LAMBDA it : Includes(Lower(it.name.s), Lower(req.q.s)))
    ELSE c

\* L221-240: the page and its metadata.
Paginate(results, req) ==
  LET pageNum == PageNum(req)
      limitNum == LimitNum(req)
      total == Len(results)
      totalPages == Ceil(total, limitNum)
      startIndex == (pageNum - 1) * limitNum
      endIndex == startIndex + limitNum
  IN Listed(Slice(results, startIndex, endIndex),
            [page |-> pageNum, limit |-> limitNum, total |-> total,
             totalPages |-> totalPages, hasNext |-> pageNum < totalPages,
             hasPrev |-> pageNum > 1])

\* L211-243 on what readData resolved to: null.filter, null.length and the
\* name of a nameless item raise a TypeError, passed to next(err).
ListResponse(d, req) ==
  IF ~d.present THEN Threw("typeerror")
  ELSE IF FilterThrows(d.v, req) THEN Threw("typeerror")
  ELSE Paginate(Filtered(d.v, req), req)

\* ------------------------------------------------------------- history
\* The history a call begins in.
Before ==
  [lastRead |-> hist.lastRead,
   unchanged |-> cachedStats.present /\ hist.computed = SameRef,
   got |-> hist.got]

\* A call begins after a completed writeData or POST, or after the
\* notification of an external save was handled, with no modification of the file since
\* (hist.scen tells which, and stays until the next modification).
AfterNow == hist.scen \in {"written", "notified", "repaired", "created"}

Began(op, ev, r, recomputed) ==
  [ev |-> ev, op |-> op, ret |-> r, after |-> AfterNow, cleared |-> FALSE,
   alone |-> FALSE, quiet |-> FALSE, recomputed |-> recomputed,
   read |-> NullData, token |-> NullDate, req |-> NoQuery, before |-> Before]

Ended(c, r) ==
  [ev |-> "done", op |-> c.op, ret |-> r, after |-> c.after,
   cleared |-> c.cleared, alone |-> c.alone, quiet |-> c.quiet,
   recomputed |-> c.op = "stats" /\ r.kind = "stats",
   read |-> NullData, token |-> NullDate, req |-> NoQuery,
   before |-> [NoBefore EXCEPT !.got = hist.got]]

\* No writeData call and no watcher callback is in progress.
NoWriteNoNotification ==
  /\ \A c \in InFlight : c.op # "write"
  /\ callbacks = << >>

\* A call of readData returned r.
HistRead(h, r) ==
  [h EXCEPT !.lastRead = IF r.kind = "data" /\ NoWriteNoNotification
                           THEN r.data ELSE NullData]

\* GET /api/stats answered r to a call that began in situation after.
HistGot(h, r, after) ==
  LET right == /\ r.kind = "stats"
               /\ file.kind = "json"
               /\ Len(Parse(file)) > 0
               /\ r.stats = StatsOf(Parse(file))
  IN [h EXCEPT !.got = IF right /\ h.got = 0 THEN 1
                       ELSE IF right /\ h.got = 2 /\ after THEN 3
                       ELSE @]

\* The file was modified: by writeData (byWrite) or by another process,
\* whose in-place save of JSON text opens the external-change scenario;
\* the cache is primed when it holds a collection and the readData that
\* stored it is no longer running. A writeData called after a get returned
\* the stored aggregate keeps that stage (keeps). A save of JSON text after
\* a readData failed on the malformed file repairs the file (fixes).
HistModified(h, byWrite, opens, keeps, fixes) ==
  [h EXCEPT !.scen = IF fixes THEN "repaired"
                     ELSE IF opens THEN "extsaved" ELSE "none",
            !.noted = FALSE,
            !.primed = /\ opens
                       /\ ~fixes
                       /\ cachedData.present
                       /\ \A c \in InFlight : c.pc \notin {"stat", "assign"},
            !.got = IF keeps THEN @ ELSE 0,
            !.race = byWrite /\ \E c \in InFlight :
                                  c.pc \in {"readFile", "parse", "stat", "assign"},
            !.lastRead = IF byWrite THEN NullData ELSE @]

\* ---------------------------------------------------------------- Init
Init ==
  /\ file \in {NoFile, Stringify(Prefix(MaxLen))}
  /\ fileMtime = 0
  /\ cachedData = NullData
  /\ lastFileMtime = NullDate
  /\ initPc = "stat"
  /\ initIo = NoResult
  /\ watching = FALSE
  /\ pending = FALSE
  /\ callbacks = << >>
  /\ cachedStats = NullStats
  /\ cachedStatsMtime = SameRef
  /\ calls = EmptyBag
  /\ now = MaxLen + 1
  /\ items = NoResponse
  /\ pagination = NoResponse
  /\ loading = FALSE
  /\ fetches = << >>
  /\ last = NoCall
  /\ hist = [scen |-> "none", primed |-> FALSE, noted |-> FALSE,
             got |-> 0, race |-> FALSE,
             computed |-> StaleRef, lastRead |-> NullData, cacheVer |-> 0,
             created |-> 0]

\* ------------------------------------------------------ initFileWatcher
\* L42: the fs.stat of initFileWatcher takes effect.
InitStatIO ==
  /\ initPc = "stat"
  /\ initIo' = Stat
  /\ initPc' = "assign"
  /\ last' = NoCall
  /\ UNCHANGED <<storeVars, repoVars, watchVars, statsVars, calls, hist>>
  /\ UNCHANGED <<now, frontVars>>

\* L43-47: seed lastFileMtime, then watchFile(): fs.watch throws when the
\* file does not exist and the error is only logged.
InitWatch ==
  /\ initPc = "assign"
  /\ IF initIo.ok
       THEN /\ lastFileMtime' = DateObj(initIo.t)
            /\ cachedStatsMtime' = StaleRef
            /\ hist' = [hist EXCEPT !.computed = StaleRef,
                                    !.got = IF @ = 3 THEN 1 ELSE @]
       ELSE UNCHANGED <<lastFileMtime, cachedStatsMtime, hist>>
  /\ watching' = (file.kind # "nofile")
  /\ initPc' = "done"
  /\ initIo' = NoResult
  /\ calls' = Retag(calls, initIo.ok, FALSE)
  /\ last' = NoCall
  /\ UNCHANGED <<storeVars, cachedData, pending, callbacks, cachedStats>>
  /\ UNCHANGED <<now, frontVars>>

\* ------------------------------------------------------------- readData
\* L58: the fs.readFile takes effect.
ReadFileIO(c) ==
  /\ c.pc = "readFile"
  /\ calls' = With(Without(c), [c EXCEPT !.io = ReadFile, !.pc = "parse"])
  /\ last' = NoCall
  /\ UNCHANGED <<storeVars, repoVars, watchVars, statsVars, initVars, hist>>
  /\ UNCHANGED <<now, frontVars>>

\* A readData that reads the file again when the read or the parse failed.
ReadParseRetry(c) ==
  /\ c.pc = "parse"
  /\ IF c.io.ok /\ Parses(c.io.content)
       THEN /\ cachedData' = SomeData(Parse(c.io.content))
            /\ calls' = With(Without(c),
                             [c EXCEPT !.io = NoResult, !.pc = "stat"])
            /\ hist' = [hist EXCEPT !.cacheVer = c.io.t]
       ELSE /\ calls' = With(Without(c),
                             [c EXCEPT !.io = NoResult, !.pc = "readFile"])
            /\ UNCHANGED <<cachedData, hist>>
  /\ last' = NoCall
  /\ UNCHANGED <<storeVars, lastFileMtime, watchVars, statsVars, initVars>>
  /\ UNCHANGED <<now, frontVars>>

\* L59-60: cachedData = JSON.parse(raw); a missing file or malformed text
\* rejects the call before anything is assigned.
ReadParse(c) ==
  /\ c.pc = "parse"
  /\ IF c.io.ok /\ Parses(c.io.content)
       THEN /\ cachedData' = SomeData(Parse(c.io.content))
            /\ calls' = With(Without(c),
                             [c EXCEPT !.io = NoResult, !.pc = "stat"])
            /\ last' = NoCall
            /\ hist' = [hist EXCEPT !.cacheVer = c.io.t]
       ELSE /\ calls' = Without(c)
            /\ last' = Ended(c, Threw(IF c.io.ok THEN "decodeerror"
                                                 ELSE "ioerror"))
            /\ hist' = [hist EXCEPT
                          !.scen = IF /\ c.io.ok
                                        /\ file.kind = "bad"
                                        /\ c.alone
                                        /\ ~cachedData.present
                                     THEN "decodefailed" ELSE @]
            /\ UNCHANGED cachedData
  /\ UNCHANGED <<storeVars, lastFileMtime, watchVars, statsVars, initVars>>
  /\ UNCHANGED <<now, frontVars>>

\* L60: the fs.stat takes effect.
ReadStatIO(c) ==
  /\ c.pc = "stat"
  /\ calls' = With(Without(c), [c EXCEPT !.io = Stat, !.pc = "assign"])
  /\ last' = NoCall
  /\ UNCHANGED <<storeVars, repoVars, watchVars, statsVars, initVars, hist>>
  /\ UNCHANGED <<now, frontVars>>

\* stats.js L288-293 on the collection d readData resolved to: a null
\* collection raises a TypeError, an empty one the mean's error.
CalculateStats(d) ==
  IF ~d.present THEN Threw("typeerror")
  ELSE IF MeanThrows(d.v) THEN Threw("emptyaggregate")
  ELSE ReturnedStats(StatsOf(d.v))

\* A handler that puts an aggregate of nothing in the place of the one
\* calculateStats failed to deliver.
AssignStatsOnFailure(r, old) ==
  IF r.kind = "stats" THEN r.stats ELSE SomeStats(0, 0, 1)

\* stats.js L308: cachedStats = await calculateStats(); a rejection leaves
\* the variable as it is (old).
AssignStats(r, old) == IF r.kind = "stats" THEN r.stats ELSE old

\* L61-62: lastFileMtime = stats.mtime; return cachedData. The awaiting
\* handler resumes in the same turn of the event loop: items.js answers
\* with the collection, stats.js L308-312 stores the aggregate with the
\* Date it read at L299.
ReadFinish(c) ==
  /\ c.pc = "assign"
  /\ c.op # "create"
  /\ IF ~c.io.ok
       THEN /\ calls' = Without(c)
            /\ last' = Ended(c, Threw("ioerror"))
            /\ UNCHANGED <<lastFileMtime, statsVars, hist>>
       ELSE /\ lastFileMtime' = DateObj(c.io.t)
            /\ calls' = Retag(Without(c), TRUE, FALSE)
            /\ cachedStatsMtime' = StaleRef
            /\ IF c.op = "stats"
                 THEN LET r == CalculateStats(cachedData)
                      IN /\ cachedStats' = AssignStats(r, cachedStats)
                         /\ last' = [Ended(c, r) EXCEPT !.read = cachedData]
                         /\ hist' = [HistGot(hist, r, c.after) EXCEPT
                                       !.computed = IF r.kind = "stats"
                                                      THEN SameRef ELSE StaleRef]
                 ELSE /\ IF c.op = "list"
                           THEN \E req \in Queries :
                                  last' = [Ended(c, ListResponse(cachedData,
                                                                 req))
                                             EXCEPT !.read = cachedData,
                                                    !.req = req]
                           ELSE last' = [Ended(c, ReturnedData(cachedData))
                                           EXCEPT !.read = cachedData]
                      /\ hist' = [HistRead(hist, ReturnedData(cachedData))
                                    EXCEPT !.computed = StaleRef]
                      /\ UNCHANGED cachedStats
  /\ UNCHANGED <<storeVars, cachedData, watchVars, initVars>>
  /\ UNCHANGED <<now, frontVars>>

\* GET /api/items (items.js L211) calls readData; L54-56 answer from the
\* cache, otherwise L58 issues the fs.readFile.
StartRead ==
  /\ Count < NumCalls
  /\ IF cachedData.present
       THEN /\ last' = [Began("read", "served", ReturnedData(cachedData),
                                FALSE) EXCEPT !.read = cachedData]
            /\ hist' = [HistRead(hist, ReturnedData(cachedData))
                          EXCEPT !.race = FALSE]
            /\ UNCHANGED calls
       ELSE /\ calls' = Join(calls, [NewCall("read", "readFile")
                                       EXCEPT !.after = AfterNow])
            /\ last' = Began("read", "start", NoReturn, FALSE)
            /\ hist' = [hist EXCEPT !.race = FALSE]
  /\ UNCHANGED <<storeVars, repoVars, watchVars, statsVars, initVars>>
  /\ UNCHANGED <<now, frontVars>>

\* ------------------------------------------------------------ writeData
\* L71-72: writeData(d) is called and issues fs.writeFile.
StartWrite(d) ==
  /\ Count < NumCalls
  /\ calls' = Join(calls, [NewCall("write", "writeFile")
                             EXCEPT !.data = d, !.after = hist.got = 1])
  /\ last' = Began("write", "start", NoReturn, FALSE)
  /\ hist' = [hist EXCEPT !.race = FALSE, !.lastRead = NullData]
  /\ UNCHANGED <<storeVars, repoVars, watchVars, statsVars, initVars>>
  /\ UNCHANGED <<now, frontVars>>

\* An fs.writeFile that appends the caller's last record to what the file
\* holds at that moment.
WriteFileMerge(c) ==
  /\ c.pc = "writeFile"
  /\ fileMtime < MaxMtime
  /\ file' = IF Parses(file) /\ Len(c.data) > 0
               THEN Stringify(Append(Parse(file), c.data[Len(c.data)]))
               ELSE Stringify(c.data)
  /\ fileMtime' = fileMtime + 1
  /\ pending' = Emit("change")
  /\ calls' = With(Retag(Without(c), FALSE, TRUE),
                   [c EXCEPT !.io = [NoResult EXCEPT !.ok = TRUE],
                             !.pc = "written", !.quiet = TRUE])
  /\ last' = NoCall
  /\ hist' = HistModified(hist, TRUE, FALSE, c.after, FALSE)
  /\ UNCHANGED <<repoVars, watching, callbacks, statsVars, initVars>>
  /\ UNCHANGED <<now, frontVars>>

\* L72: the fs.writeFile replaces the file; fs.watch sees the change.
WriteFileIO(c) ==
  /\ c.pc = "writeFile"
  /\ fileMtime < MaxMtime
  /\ file' = Stringify(c.data)
  /\ fileMtime' = fileMtime + 1
  /\ pending' = Emit("change")
  /\ calls' = With(Retag(Without(c), FALSE, TRUE),
                   [c EXCEPT !.io = [NoResult EXCEPT !.ok = TRUE],
                             !.pc = "written", !.quiet = TRUE])
  /\ last' = NoCall
  /\ hist' = HistModified(hist, TRUE, FALSE, c.after, FALSE)
  /\ UNCHANGED <<repoVars, watching, callbacks, statsVars, initVars>>
  /\ UNCHANGED <<now, frontVars>>

\* L72: the fs.writeFile fails (disk full, permissions); the file is kept.
WriteFileFail(c) ==
  /\ c.pc = "writeFile"
  /\ calls' = With(Without(c), [c EXCEPT !.io = NoResult, !.pc = "written"])
  /\ last' = NoCall
  /\ hist' = [hist EXCEPT !.lastRead = NullData]
  /\ UNCHANGED <<storeVars, repoVars, watchVars, statsVars, initVars>>
  /\ UNCHANGED <<now, frontVars>>

\* A writeData that stores what it wrote instead of dropping the cache.
WriteThrough(c) ==
  /\ c.pc = "written"
  /\ IF c.io.ok
       THEN /\ cachedData' = SomeData(c.data)
            /\ calls' = With(Without(c),
                             [c EXCEPT !.io = NoResult, !.pc = "wstat"])
            /\ last' = NoCall
       ELSE /\ calls' = Without(c)
            /\ last' = Ended(c, Threw("ioerror"))
            /\ UNCHANGED cachedData
  /\ hist' = [hist EXCEPT !.lastRead = NullData]
  /\ UNCHANGED <<storeVars, lastFileMtime, watchVars, statsVars, initVars>>
  /\ UNCHANGED <<now, frontVars>>

\* L73-74: cachedData = null, then fs.stat is issued; a failed write
\* rejects the call at L72.
WriteInvalidate(c) ==
  /\ c.pc = "written"
  /\ IF c.io.ok
       THEN /\ cachedData' = NullData
            /\ calls' = With(Without(c),
                             [c EXCEPT !.io = NoResult, !.pc = "wstat",
                                       !.cleared = cachedData.present])
            /\ last' = NoCall
       ELSE /\ calls' = Without(c)
            /\ last' = Ended(c, Threw("ioerror"))
            /\ UNCHANGED cachedData
  /\ hist' = [hist EXCEPT !.lastRead = NullData]
  /\ UNCHANGED <<storeVars, lastFileMtime, watchVars, statsVars, initVars>>
  /\ UNCHANGED <<now, frontVars>>

\* L74: the fs.stat takes effect.
WriteStatIO(c) ==
  /\ c.pc = "wstat"
  /\ calls' = With(Without(c), [c EXCEPT !.io = Stat, !.pc = "wassign"])
  /\ last' = NoCall
  /\ hist' = [hist EXCEPT !.lastRead = NullData]
  /\ UNCHANGED <<storeVars, repoVars, watchVars, statsVars, initVars>>
  /\ UNCHANGED <<now, frontVars>>

\* L75: lastFileMtime = stats.mtime; items.js L270 then answers the POST
\* with 201 and the item.
WriteFinish(c) ==
  /\ c.pc = "wassign"
  /\ IF c.io.ok
       THEN /\ lastFileMtime' = DateObj(c.io.t)
            /\ cachedStatsMtime' = StaleRef
            /\ calls' = Retag(Without(c), TRUE, FALSE)
            /\ last' = Ended(c, IF c.op = "create" THEN Created(c.item)
                                                     ELSE ReturnedVoid)
            /\ hist' =
                 LET settled == /\ c.io.t = fileMtime
                                /\ file = Stringify(c.data)
                                /\ hist.scen = "none"
                 IN [hist EXCEPT
                       !.computed = StaleRef,
                       !.lastRead = NullData,
                       !.scen = IF settled /\ c.op = "write" THEN "written"
                                ELSE IF settled /\ c.clean THEN "created"
                                ELSE @,
                       !.got = IF /\ settled
                                    /\ c.after
                                    /\ Len(c.data) > 0
                                    /\ Without(c) = EmptyBag
                                 THEN 2 ELSE @,
                       !.created = IF c.op = "create" /\ @ < MaxMtime
                                     THEN @ + 1 ELSE @]
       ELSE /\ calls' = Without(c)
            /\ last' = Ended(c, Threw("ioerror"))
            /\ hist' = [hist EXCEPT !.lastRead = NullData]
            /\ UNCHANGED <<lastFileMtime, cachedStatsMtime>>
  /\ UNCHANGED <<storeVars, cachedData, watchVars, cachedStats, initVars>>
  /\ UNCHANGED <<now, frontVars>>

\* ------------------------------------------------------------ watchFile
\* L14-17: fs.watch delivers a 'change' event; the callback's fs.stat
\* takes effect and the callback is suspended on it.
WatchChange ==
  /\ pending
  /\ Len(callbacks) < MaxCallbacks
  /\ pending' = FALSE
  /\ callbacks' = Append(callbacks, Stat)
  /\ last' = NoCall
  /\ hist' = [hist EXCEPT !.lastRead = NullData]
  /\ UNCHANGED <<storeVars, repoVars, watching, statsVars, initVars, calls>>
  /\ UNCHANGED <<now, frontVars>>

\* L19: the mtime differs from the recorded one (or none is recorded).
MtimeChanged(st) == ~lastFileMtime.set \/ st.t # lastFileMtime.t

\* A callback that records the new mtime and keeps the cached collection.
WatchApplyTokenOnly(i) ==
  /\ i \in 1..Len(callbacks)
  /\ callbacks' = [j \in 1..(Len(callbacks) - 1) |->
                     IF j < i THEN callbacks[j] ELSE callbacks[j + 1]]
  /\ LET st == callbacks[i]
         assigns == st.ok /\ MtimeChanged(st)
     IN /\ cachedData' = IF ~st.ok THEN NullData ELSE cachedData
        /\ lastFileMtime' = IF assigns THEN DateObj(st.t) ELSE lastFileMtime
        /\ cachedStatsMtime' = IF assigns THEN StaleRef ELSE cachedStatsMtime
        /\ calls' = Retag(calls, assigns, FALSE)
        /\ hist' = [hist EXCEPT
                      !.lastRead = NullData,
                      !.computed = IF assigns THEN StaleRef ELSE @,
                      !.got = IF @ = 3 THEN 1 ELSE @,
                      !.noted = @ \/ (st.ok /\ st.t = fileMtime),
                      !.scen = IF @ = "extsaved" /\ st.ok /\ st.t = fileMtime
                                 THEN "notified" ELSE @]
  /\ last' = NoCall
  /\ UNCHANGED <<storeVars, watching, pending, cachedStats, initVars>>
  /\ UNCHANGED <<now, frontVars>>

\* A catch block that swallows the error and keeps the cache.
OnStatFailureKeep(old) == old

\* L23-26: the fs.stat of the callback failed: cachedData = null.
OnStatFailure(old) == NullData

\* L18-26: the callback resumes with its stat result.
WatchApply(i) ==
  /\ i \in 1..Len(callbacks)
  /\ callbacks' = [j \in 1..(Len(callbacks) - 1) |->
                     IF j < i THEN callbacks[j] ELSE callbacks[j + 1]]
  /\ LET st == callbacks[i]
         assigns == st.ok /\ MtimeChanged(st)
     IN /\ cachedData' = IF ~st.ok THEN OnStatFailure(cachedData)
                         ELSE IF assigns THEN NullData ELSE cachedData
        /\ lastFileMtime' = IF assigns THEN DateObj(st.t) ELSE lastFileMtime
        /\ cachedStatsMtime' = IF assigns THEN StaleRef ELSE cachedStatsMtime
        /\ calls' = Retag(calls, assigns, FALSE)
        /\ hist' = [hist EXCEPT
                      !.lastRead = NullData,
                      !.computed = IF assigns THEN StaleRef ELSE @,
                      !.got = IF @ = 3 THEN 1 ELSE @,
                      !.noted = @ \/ (st.ok /\ st.t = fileMtime),
                      !.scen = IF @ = "extsaved" /\ st.ok /\ st.t = fileMtime
                                 THEN "notified" ELSE @]
  /\ last' = IF callbacks[i].ok THEN NoCall
             ELSE [NoCall EXCEPT !.op = "watch", !.ev = "done",
                                 !.cleared = cachedData.present]
  /\ UNCHANGED <<storeVars, watching, pending, cachedStats, initVars>>
  /\ UNCHANGED <<now, frontVars>>

\* fs.watch reports one modification more than once.
DuplicateEvent ==
  /\ watching
  /\ ~pending
  /\ fileMtime > 0
  /\ pending' = TRUE
  /\ last' = NoCall
  /\ UNCHANGED <<storeVars, repoVars, watching, callbacks, statsVars,
                 initVars, calls, hist>>
  /\ UNCHANGED <<now, frontVars>>

\* ------------------------------------------------- the world outside
\* Another process saves the file: in place ('change') or by replacing it
\* ('rename'); the text may be malformed.
ExternalSave(content, kind) ==
  /\ fileMtime < MaxMtime
  /\ content # file
  /\ file' = content
  /\ fileMtime' = fileMtime + 1
  /\ pending' = Emit(kind)
  /\ calls' = Retag(calls, FALSE, TRUE)
  /\ last' = NoCall
  /\ hist' = HistModified(hist, FALSE,
                          /\ watching
                          /\ kind = "change"
                          /\ content.kind = "json",
                          FALSE,
                          content.kind = "json" /\ hist.scen = "decodefailed")
  /\ UNCHANGED <<repoVars, watching, callbacks, statsVars, initVars>>
  /\ UNCHANGED <<now, frontVars>>

\* Another process deletes the file.
ExternalDelete ==
  /\ file.kind # "nofile"
  /\ fileMtime < MaxMtime
  /\ file' = NoFile
  /\ fileMtime' = fileMtime + 1
  /\ pending' = Emit("rename")
  /\ calls' = Retag(calls, FALSE, TRUE)
  /\ last' = NoCall
  /\ hist' = HistModified(hist, FALSE, FALSE, FALSE, FALSE)
  /\ UNCHANGED <<repoVars, watching, callbacks, statsVars, initVars>>
  /\ UNCHANGED <<now, frontVars>>

\* ------------------------------------------------------- GET /api/items
\* L209-243: a listing with the query req calls readData; on a cache hit
\* (L54-56) it answers in the same turn.
StartList ==
  /\ Count < NumCalls
  /\ IF cachedData.present
       THEN /\ \E req \in Queries :
                 last' = [Began("list", "served",
                                ListResponse(cachedData, req), FALSE)
                            EXCEPT !.read = cachedData, !.req = req]
            /\ hist' = [HistRead(hist, ReturnedData(cachedData))
                          EXCEPT !.race = FALSE]
            /\ UNCHANGED calls
       ELSE /\ calls' = Join(calls, [NewCall("list", "readFile")
                                       EXCEPT !.after = AfterNow])
            /\ last' = Began("list", "start", NoReturn, FALSE)
            /\ hist' = [hist EXCEPT !.race = FALSE]
  /\ UNCHANGED <<storeVars, repoVars, watchVars, statsVars, initVars>>
  /\ UNCHANGED <<now, frontVars>>

\* ------------------------------------------------------ POST /api/items
\* items.js L266-268 on the collection readData resolved to: item.id =
\* Date.now(), data.push(item) on the array the cache holds, and
\* writeData(data) serializes it for fs.writeFile (L72).
Pushed(c, body) == Append(c, [body EXCEPT !.id = now])

\* The handlers next to a new POST: no POST among them has run alone.
NextTo(b) == BagOfAll(LAMBDA x : [x EXCEPT !.clean = FALSE], b)

NoOtherCreate == \A x \in InFlight : x.op # "create"

\* L263-265: POST /api/items with req.body = body calls readData; on a
\* cache hit (L54-56) L266-268 follow in the same turn.
StartCreate(body) ==
  /\ Count < NumCalls
  /\ body \in Bodies
  /\ IF cachedData.present
       THEN /\ cachedData' = SomeData(Pushed(cachedData.v, body))
            /\ calls' = Join(NextTo(calls),
                             [NewCall("create", "writeFile")
                                EXCEPT !.data = Pushed(cachedData.v, body),
                                       !.item = [body EXCEPT !.id = now],
                                       !.clean = NoOtherCreate])
       ELSE /\ calls' = Join(NextTo(calls),
                             [NewCall("create", "readFile")
                                EXCEPT !.item = body,
                                       !.clean = NoOtherCreate])
            /\ UNCHANGED cachedData
  /\ last' = Began("create", "start", NoReturn, FALSE)
  /\ hist' = [hist EXCEPT !.race = FALSE, !.lastRead = NullData]
  /\ UNCHANGED <<storeVars, lastFileMtime, watchVars, statsVars, initVars>>
  /\ UNCHANGED <<now, frontVars>>

\* readData L61-62 for the POST, then items.js L266-268 in the same turn:
\* the push fails on null with a TypeError.
CreateReadFinish(c) ==
  /\ c.pc = "assign"
  /\ c.op = "create"
  /\ IF ~c.io.ok
       THEN /\ calls' = Without(c)
            /\ last' = Ended(c, Threw("ioerror"))
            /\ UNCHANGED <<repoVars, cachedStatsMtime, hist>>
       ELSE /\ lastFileMtime' = DateObj(c.io.t)
            /\ cachedStatsMtime' = StaleRef
            /\ hist' = [hist EXCEPT !.computed = StaleRef,
                                    !.lastRead = NullData]
            /\ IF cachedData.present
                 THEN /\ cachedData' = SomeData(Pushed(cachedData.v, c.item))
                      /\ calls' =
                           With(Retag(Without(c), TRUE, FALSE),
                                [c EXCEPT !.io = NoResult, !.pc = "writeFile",
                                          !.data = Pushed(cachedData.v, c.item),
                                          !.item = [c.item EXCEPT !.id = now]])
                      /\ last' = NoCall
                 ELSE /\ calls' = Retag(Without(c), TRUE, FALSE)
                      /\ last' = Ended(c, Threw("typeerror"))
                      /\ UNCHANGED cachedData
  /\ UNCHANGED <<storeVars, watchVars, cachedStats, initVars>>
  /\ UNCHANGED frontVars
  /\ UNCHANGED now

\* A millisecond passes.
Tick ==
  /\ now < MaxLen + 1 + MaxTicks
  /\ now' = now + 1
  /\ last' = NoCall
  /\ UNCHANGED <<storeVars, repoVars, watchVars, statsVars, initVars, calls,
                 hist, frontVars>>

\* -------------------------------------------------- getLastModifiedTime
\* A getter that forgets what it was to return.
getLastModifiedTimeNull == NullDate

\* L66-68: return lastFileMtime.
getLastModifiedTime == lastFileMtime

\* A caller (stats.js L299) asks for the token: the function returns in
\* the same turn, with no await and no fs call.
GetLastModifiedTime ==
  /\ last' = [NoCall EXCEPT !.op = "token", !.ev = "served",
                            !.token = getLastModifiedTime]
  /\ UNCHANGED <<storeVars, repoVars, watchVars, statsVars, initVars, calls,
                 hist>>
  /\ UNCHANGED <<now, frontVars>>

\* ------------------------------------------------------- GET /api/stats
\* stats.js L299-312 up to the first suspension: L302-304 drop a cached
\* aggregate whose Date is not the repository's, L307 serves a kept one,
\* and otherwise calculateStats calls readData, which answers from the
\* cache in the same turn or issues the fs.readFile.
StartStats ==
  /\ Count < NumCalls
  /\ LET cur == SameRef
         kept == IF cachedStats.present /\ cachedStatsMtime # cur
                   THEN NullStats ELSE cachedStats
         r == CalculateStats(cachedData)
     IN IF kept.present
          THEN /\ last' = Began("stats", "served", ReturnedStats(kept), FALSE)
               /\ hist' = [HistGot(hist, ReturnedStats(kept), AfterNow)
                             EXCEPT !.race = FALSE]
               /\ UNCHANGED <<statsVars, calls>>
          ELSE IF cachedData.present
            THEN /\ cachedStats' = AssignStats(r, kept)
                 /\ cachedStatsMtime' =
                      IF r.kind = "stats" THEN cur ELSE cachedStatsMtime
                 /\ last' = [Began("stats", "served", r, r.kind = "stats")
                                EXCEPT !.read = cachedData]
                 /\ hist' = [HistGot(hist, r, AfterNow) EXCEPT
                               !.race = FALSE,
                               !.computed = IF r.kind = "stats"
                                              THEN SameRef ELSE @]
                 /\ UNCHANGED calls
            ELSE /\ cachedStats' = kept
                 /\ UNCHANGED cachedStatsMtime
                 /\ calls' = Join(calls, [NewCall("stats", "readFile")
                                            EXCEPT !.cur = cur,
                                                   !.after = AfterNow])
                 /\ last' = Began("stats", "start", NoReturn, FALSE)
                 /\ hist' = [hist EXCEPT !.race = FALSE]
  /\ UNCHANGED <<storeVars, repoVars, watchVars, initVars>>
  /\ UNCHANGED <<now, frontVars>>
\* ------------------------------------------------- Items.js, DataContext
\* All that changes here is the state of the DataProvider.
BackendUnchanged ==
  UNCHANGED <<storeVars, repoVars, watchVars, statsVars, initVars, calls, now,
              last, hist>>

\* A call of fetchItems: the await it is at or how it ended (pc), and
\* whether its AbortController has been aborted.
NewFetch == [pc |-> "fetch", aborted |-> FALSE]

\* Items.js L12-16: the effect runs (on mount, or when page or search
\* changed, after the cleanup of the run before it): a new AbortController,
\* fetchItems sets loading (L11) and issues the fetch (L21).
RunEffect ==
  /\ Len(fetches) < MaxFetches
  /\ fetches # << >> => fetches[Len(fetches)].aborted
  /\ fetches' = Append(fetches, NewFetch)
  /\ loading' = TRUE
  /\ UNCHANGED <<items, pagination>>
  /\ BackendUnchanged

\* Items.js L17-19: the cleanup of the latest run aborts its controller.
Cleanup ==
  /\ fetches # << >>
  /\ ~fetches[Len(fetches)].aborted
  /\ fetches' = [fetches EXCEPT ![Len(fetches)].aborted = TRUE]
  /\ UNCHANGED <<items, pagination, loading>>
  /\ BackendUnchanged

\* L21-23: the fetch resolves (a fetch that does not honour the signal
\* resolves also after the abort); L22 returns when the signal is aborted,
\* through the finally of L32-34, otherwise res.json() is awaited.
FetchResolves(i) ==
  /\ i \in DOMAIN fetches
  /\ fetches[i].pc = "fetch"
  /\ IF fetches[i].aborted
       THEN /\ fetches' = [fetches EXCEPT ![i].pc = "dropped"]
            /\ loading' = FALSE
       ELSE /\ fetches' = [fetches EXCEPT ![i].pc = "json"]
            /\ UNCHANGED loading
  /\ UNCHANGED <<items, pagination>>
  /\ BackendUnchanged

\* L21 or L23 rejects, with the AbortError or a network error: the catch
\* of L28-31 logs or ignores it, the finally of L32-34 clears loading.
FetchRejects(i) ==
  /\ i \in DOMAIN fetches
  /\ fetches[i].pc \in {"fetch", "json"}
  /\ fetches' = [fetches EXCEPT ![i].pc = "failed"]
  /\ loading' = FALSE
  /\ UNCHANGED <<items, pagination>>
  /\ BackendUnchanged

\* A fetchItems that applies the body without looking at the signal.
JsonResolvesUnchecked(i) ==
  /\ i \in DOMAIN fetches
  /\ fetches[i].pc = "json"
  /\ fetches' = [fetches EXCEPT ![i].pc = "applied"]
  /\ items' = i
  /\ pagination' = i
  /\ loading' = FALSE
  /\ BackendUnchanged

\* L23-27, L32-34: res.json() resolves; L24 returns when the signal is
\* aborted, otherwise the response of request i is applied.
JsonResolves(i) ==
  /\ i \in DOMAIN fetches
  /\ fetches[i].pc = "json"
  /\ IF fetches[i].aborted
       THEN /\ fetches' = [fetches EXCEPT ![i].pc = "dropped"]
            /\ UNCHANGED <<items, pagination>>
       ELSE /\ fetches' = [fetches EXCEPT ![i].pc = "applied"]
            /\ items' = i
            /\ pagination' = i
  /\ loading' = FALSE
  /\ BackendUnchanged

\* ----------------------------------------------------------------- Next
\* The repository with its watcher, and the processes that save
\* collections to the file.
CoreStep ==
  \/ InitStatIO
  \/ InitWatch
  \/ \E c \in InFlight : ReadFileIO(c)
  \/ \E c \in InFlight : ReadParse(c)
  \/ \E c \in InFlight : ReadStatIO(c)
  \/ \E c \in InFlight : ReadFinish(c)
  \/ \E d \in Collections : StartWrite(d)
  \/ \E c \in InFlight : WriteFileIO(c)
  \/ \E c \in InFlight : WriteInvalidate(c)
  \/ \E c \in InFlight : WriteStatIO(c)
  \/ \E c \in InFlight : WriteFinish(c)
  \/ WatchChange
  \/ \E i \in 1..MaxCallbacks : WatchApply(i)
  \/ \E d \in Collections, k \in {"change", "rename"} :
       ExternalSave(Stringify(d), k)

\* What goes wrong around it: a write that fails, an event reported twice,
\* malformed text saved to the file, the file deleted.
FaultStep ==
  \/ \E c \in InFlight : WriteFileFail(c)
  \/ DuplicateEvent
  \/ \E k \in {"change", "rename"} : ExternalSave(BadFile, k)
  \/ ExternalDelete

RepositoryStep ==
  \/ CoreStep
  \/ FaultStep

Next ==
  \/ RepositoryStep
  \/ StartRead
  \/ StartStats

Spec == Init /\ [][Next]_vars

\* The repository under GET /api/items and writeData alone.
NextItems ==
  \/ RepositoryStep
  \/ StartRead

SpecItems == Init /\ [][NextItems]_vars

\* The repository under GET /api/stats, writeData and saved collections.
NextStats ==
  \/ CoreStep
  \/ StartStats

SpecStats == Init /\ [][NextStats]_vars

\* The repository under readData, writeData and getLastModifiedTime.
NextToken ==
  \/ CoreStep
  \/ StartRead
  \/ GetLastModifiedTime

SpecToken == Init /\ [][NextToken]_vars

\* The repository under GET and POST /api/items, with its watcher and
\* the processes that save collections to the file.
NextCreate ==
  \/ InitStatIO
  \/ InitWatch
  \/ \E c \in InFlight : ReadFileIO(c)
  \/ \E c \in InFlight : ReadParse(c)
  \/ \E c \in InFlight : ReadStatIO(c)
  \/ \E c \in InFlight : ReadFinish(c)
  \/ \E c \in InFlight : CreateReadFinish(c)
  \/ StartRead
  \/ StartCreate(Named)
  \/ \E c \in InFlight : WriteFileIO(c)
  \/ \E c \in InFlight : WriteInvalidate(c)
  \/ \E c \in InFlight : WriteStatIO(c)
  \/ \E c \in InFlight : WriteFinish(c)
  \/ WatchChange
  \/ \E i \in 1..MaxCallbacks : WatchApply(i)
  \/ \E d \in Collections : ExternalSave(Stringify(d), "change")

SpecCreate == Init /\ [][NextCreate]_vars

\* Listings, and POSTs of records without a name, over readData and
\* writeData, on the server's clock.
NextList ==
  \/ \E c \in InFlight : ReadFileIO(c)
  \/ \E c \in InFlight : ReadParse(c)
  \/ \E c \in InFlight : ReadStatIO(c)
  \/ \E c \in InFlight : ReadFinish(c)
  \/ \E c \in InFlight : CreateReadFinish(c)
  \/ StartList
  \/ StartCreate(Nameless)
  \/ \E c \in InFlight : WriteFileIO(c)
  \/ \E c \in InFlight : WriteInvalidate(c)
  \/ \E c \in InFlight : WriteStatIO(c)
  \/ \E c \in InFlight : WriteFinish(c)
  \/ Tick

SpecList == Init /\ [][NextList]_vars

\* GET /api/stats and readData over the watched file, which other
\* processes save in place and delete.
NextDerived ==
  \/ InitStatIO
  \/ InitWatch
  \/ \E c \in InFlight : ReadFileIO(c)
  \/ \E c \in InFlight : ReadParse(c)
  \/ \E c \in InFlight : ReadStatIO(c)
  \/ \E c \in InFlight : ReadFinish(c)
  \/ StartRead
  \/ StartStats
  \/ WatchChange
  \/ \E i \in 1..MaxCallbacks : WatchApply(i)
  \/ \E d \in Collections : ExternalSave(Stringify(d), "change")
  \/ ExternalDelete

SpecDerived == Init /\ [][NextDerived]_vars

\* POST /api/items requests alone, on the server's clock: nothing else
\* touches the file.
NextLost ==
  \/ \E c \in InFlight : ReadFileIO(c)
  \/ \E c \in InFlight : ReadParse(c)
  \/ \E c \in InFlight : ReadStatIO(c)
  \/ \E c \in InFlight : CreateReadFinish(c)
  \/ StartCreate(Named)
  \/ \E c \in InFlight : WriteFileIO(c)
  \/ \E c \in InFlight : WriteInvalidate(c)
  \/ \E c \in InFlight : WriteStatIO(c)
  \/ \E c \in InFlight : WriteFinish(c)
  \/ Tick

SpecLost == Init /\ [][NextLost]_vars

\* initFileWatcher, readData, writeData and GET /api/stats over a file that
\* may be missing, malformed or not writable.
NextFail ==
  \/ InitStatIO
  \/ InitWatch
  \/ WatchChange
  \/ \E i \in 1..MaxCallbacks : WatchApply(i)
  \/ \E c \in InFlight : ReadFileIO(c)
  \/ \E c \in InFlight : ReadParse(c)
  \/ \E c \in InFlight : ReadStatIO(c)
  \/ \E c \in InFlight : ReadFinish(c)
  \/ StartRead
  \/ StartStats
  \/ StartWrite(Prefix(1))
  \/ \E c \in InFlight : WriteFileIO(c)
  \/ \E c \in InFlight : WriteFileFail(c)
  \/ \E c \in InFlight : WriteInvalidate(c)
  \/ \E c \in InFlight : WriteStatIO(c)
  \/ \E c \in InFlight : WriteFinish(c)
  \/ ExternalSave(BadFile, "change")
  \/ ExternalDelete

SpecFail == Init /\ [][NextFail]_vars

\* The Items page over the DataProvider.
NextFront ==
  \/ RunEffect
  \/ Cleanup
  \/ \E i \in 1..MaxFetches : FetchResolves(i)
  \/ \E i \in 1..MaxFetches : FetchRejects(i)
  \/ \E i \in 1..MaxFetches : JsonResolves(i)

SpecFront == Init /\ [][NextFront]_vars

\* ============================================================ properties
\* Nothing is in progress: no handler, no watcher callback, no undelivered
\* event, and initFileWatcher has returned.
Quiescent ==
  /\ calls = EmptyBag
  /\ callbacks = << >>
  /\ ~pending
  /\ initPc = "done"

\* A call of op returned in the latest step.
Returned(op) == last.op = op /\ last.ev \in {"served", "done"}

\* A call of op began in the latest step.
BeganNow(op) == last.op = op /\ last.ev \in {"served", "start"}

\* The collection the file holds.
Stored == SomeData(Parse(file))

\* The readData calls that have loaded the file's text (L58) and have not
\* yet stored it in the cache (L59).
Loaded == [c \in {x \in InFlight : x.pc = "parse"} |-> CopiesIn(c, calls)]

\* C1: a readData that begins after writeData(C) has completed, with no
\* other write and no external modification since the write, returns C.
WriteThenReadCoherence ==
  (Returned("read") /\ last.after /\ hist.scen = "written")
    => last.ret = ReturnedData(Stored)

\* C2: from a primed cache, once an external in-place save has advanced the
\* mtime and its change notification has been handled, the next readData
\* returns the new content.
ExternalChangeInvalidation ==
  (Returned("read") /\ last.after /\ hist.scen = "notified" /\ hist.primed)
    => last.ret = ReturnedData(Stored)

\* C3: whenever cachedData is present it is the content of the store version
\* whose mtime lastFileMtime records. Taken at the states in which no
\* readData stands between its two assignments (L59, L61).
CacheTokenInvariant ==
  (cachedData.present /\ \A c \in InFlight : c.pc \notin {"stat", "assign"})
    => (lastFileMtime.set /\ lastFileMtime.t = hist.cacheVer)

\* C4: once the change notification of the last external save has been
\* handled and nothing is in progress, the cache is not stale: what a
\* readData would return from it is the file's content.
WatcherKeepsCacheFresh ==
  (Quiescent /\ hist.scen = "notified" /\ cachedData.present)
    => cachedData = Stored

\* C5: a get that begins while a cached aggregate exists and lastFileMtime
\* is the value it had when that aggregate was computed answers from the
\* cache: no readData, no recomputation.
DerivedCachePiggybacks ==
  (BeganNow("stats") /\ last.before.unchanged)
    => (last.ev = "served" /\ ~last.recomputed)

\* C6: after a get of the stored aggregate and then a writeData(C) with C
\* non-empty that completed while no other call was running, the next get
\* returns the aggregate of C, and a further get, no write or notification
\* in between, returns that aggregate from the cache without recomputing it.
DerivedCacheFollowsWrites ==
  /\ (Returned("stats") /\ last.after /\ last.before.got = 2)
       => last.ret = ReturnedStats(StatsOf(Parse(file)))
  /\ (BeganNow("stats") /\ last.before.got = 3)
       => /\ last.ev = "served"
          /\ ~last.recomputed
          /\ last.ret = ReturnedStats(StatsOf(Parse(file)))

\* C7: whenever cachedStats is present, cachedStatsMtime is the current
\* lastFileMtime and cachedStats is the aggregate of the collection of that
\* token (here: of the file, when the token is the file's mtime).
DerivedCacheInvariant ==
  cachedStats.present =>
    /\ cachedStatsMtime = SameRef
    /\ (lastFileMtime.t = fileMtime /\ file.kind = "json"
          /\ Len(Parse(file)) > 0)
         => cachedStats = StatsOf(Parse(file))

\* C8: of the readData calls that found the cache empty, at most one has
\* loaded the file while the cache is still unfilled by them.
CacheFillMutualExclusion ==
  BagCardinality(Loaded) <= 1

\* C9: a writeData(C) took effect while a readData had its load under way;
\* once both have completed (and no call began, no other modification was
\* made since) the cache does not hold the content from before the write.
ReadWriteSerialization ==
  (hist.race /\ calls = EmptyBag /\ cachedData.present)
    => cachedData = Stored

\* C10: a readData that begins after another returned a collection, with no
\* writeData and no notification in progress since, makes no store access
\* and returns that same collection.
CacheShortCircuit ==
  (BeganNow("read") /\ last.before.lastRead.present)
    => (last.ev = "served" /\ last.ret = ReturnedData(last.before.lastRead))

\* The step is the watcher callback i resuming with its stat result.
Handles(i) ==
  /\ i \in 1..Len(callbacks)
  /\ callbacks' = [j \in 1..(Len(callbacks) - 1) |->
                     IF j < i THEN callbacks[j] ELSE callbacks[j + 1]]

\* C11: when a notification has been handled for the file's current mtime,
\* the handling of a further notification whose stat returns that same
\* mtime changes neither cachedData nor lastFileMtime.
DuplicateNotificationIdempotence ==
  [][\A i \in 1..Len(callbacks) :
       (Handles(i) /\ hist.noted /\ callbacks[i].ok
          /\ callbacks[i].t = fileMtime)
         => UNCHANGED <<cachedData, lastFileMtime>>]_vars

\* C12: a writeData that fails with an I/O error, no other handler having
\* run meanwhile, has not emptied the cache (and it assigns lastFileMtime
\* only at L75, when it succeeds): the two fields are as the call found
\* them.
FailedWriteLeavesCache ==
  (Returned("write") /\ last.ret = Threw("ioerror") /\ last.alone)
    => ~last.cleared

\* C13: a readData on malformed text fails with a decode error and, no
\* other handler having run meanwhile, leaves cachedData empty; after such
\* a failure, a readData that begins when the file has been repaired, and
\* before any further modification, returns the repaired content.
DecodeFailureDoesNotPoison ==
  /\ (Returned("read") /\ last.ret = Threw("decodeerror") /\ last.alone)
       => ~cachedData.present
  /\ (Returned("read") /\ last.after /\ hist.scen = "repaired")
       => last.ret = ReturnedData(Stored)

TokenGetterFrame ==
  [][last'.op = "token"
       => /\ last'.token = lastFileMtime
          /\ UNCHANGED <<storeVars, repoVars, statsVars, watchVars, calls>>]_vars

\* The token of a filled cache has been asked for.
TokenGetterFrameWitness ==
  /\ last.op = "token"
  /\ last.token = DateObj(fileMtime)
  /\ fileMtime > 0
  /\ cachedData.present

\* C19: when writeData succeeds, having run with no other handler and with
\* no other modification of the file since its own, it leaves cachedData
\* absent (it does not cache what it wrote) and lastFileMtime equal to the
\* file's mtime after the write.
WriteInvalidates ==
  (Returned("write") /\ last.ret = ReturnedVoid /\ last.alone /\ last.quiet)
    => /\ ~cachedData.present
       /\ lastFileMtime = DateObj(fileMtime)

\* A lone writeData has succeeded over a filled cache.
WriteInvalidatesWitness ==
  /\ Returned("write") /\ last.ret = ReturnedVoid
  /\ last.alone /\ last.quiet /\ last.cleared
  /\ ~cachedData.present
  /\ fileMtime > 0

\* C20: when the watcher callback finds an mtime that differs from
\* lastFileMtime, one step both clears cachedData and sets lastFileMtime to
\* that mtime; no step of the callback puts a collection into cachedData,
\* touches the file, or starts or resumes a handler.
LazyAtomicInvalidation ==
  [][\A i \in 1..Len(callbacks) :
       Handles(i)
         => /\ (callbacks[i].ok /\ MtimeChanged(callbacks[i]))
                 => /\ cachedData' = NullData
                    /\ lastFileMtime' = DateObj(callbacks[i].t)
            /\ cachedData' \in {cachedData, NullData}
            /\ UNCHANGED storeVars
            /\ BagCardinality(calls') = BagCardinality(calls)
            /\ \A c \in BagToSet(calls') : \E b \in InFlight : c.pc = b.pc]_vars

\* The callback has handled an external save over a filled cache: the
\* cache is empty, the token is the file's mtime, and no handler has run
\* since.
LazyAtomicInvalidationWitness ==
  /\ hist.scen = "notified"
  /\ hist.primed
  /\ ~cachedData.present
  /\ lastFileMtime = DateObj(fileMtime)
  /\ calls = EmptyBag
  /\ last = NoCall

\* C18: a call of fetchItems whose signal is aborted before its response
\* is applied changes neither items nor pagination in any of its steps;
\* what is displayed was put there by a call not aborted at that moment.
AbortedFetchNeverUpdates ==
  [][/\ \A i \in DOMAIN fetches :
          (fetches[i].aborted /\ fetches'[i] # fetches[i])
            => UNCHANGED <<items, pagination>>
     /\ (items' # items \/ pagination' # pagination)
          => \E i \in DOMAIN fetches :
               /\ ~fetches[i].aborted
               /\ fetches[i].pc = "json"
               /\ fetches'[i].pc = "applied"
               /\ items' = i
               /\ pagination' = i]_vars

\* A call aborted while its body was awaited has returned at L24, and the
\* call made after it has been applied.
AbortedFetchNeverUpdatesWitness ==
  \E i, j \in DOMAIN fetches :
    /\ i < j
    /\ fetches[i].aborted
    /\ fetches[i].pc = "dropped"
    /\ fetches[j].pc = "applied"
    /\ items = j
    /\ pagination = j

\* C17: a POST answered 201 returns the submitted fields with a positive
\* id; and once a POST has completed, with no other POST and no external
\* change while it ran, a read that begins afterwards, with no
\* modification of the file since, returns a collection that holds the
\* new item.
CreatePersists ==
  /\ (Returned("create") /\ last.ret.kind = "created")
       => /\ last.ret.data.v[1].id > 0
          /\ [last.ret.data.v[1] EXCEPT !.id = 0] \in Bodies
  /\ (Returned("read") /\ last.after /\ hist.scen = "created")
       => /\ last.ret.kind = "data"
          /\ last.ret.data.present
          /\ \E k \in 1..Len(last.ret.data.v) :
               last.ret.data.v[k] = Parse(file)[Len(Parse(file))]

\* The items of c whose name contains the search text, letter case aside;
\* all of c when nothing is searched for.
Matching(c, req) ==
  IF Searches(req)
    THEN SelectSeq(c, LAMBDA it : /\ it.name.text
                                  /\ Includes(Lower(it.name.s), Lower(req.q.s)))
    ELSE c

\* The items of pages 1..n of the listing of c, one after the other.
RECURSIVE PagesUpTo(_, _, _)
PagesUpTo(c, req, n) ==
  IF n = 0 THEN << >>
  ELSE PagesUpTo(c, req, n - 1)
         \o ListResponse(SomeData(c), [req EXCEPT !.page = Str(<<Digits[n + 1]>>)]).data.v

\* C16: a listing of the stored collection that runs with no other handler,
\* with page >= 1 and limit >= 1, answers with total = the number of matching items, totalPages =
\* ceil(total / limit), hasNext = (page < totalPages), hasPrev = (page > 1),
\* items = the slice [(page-1)*limit, page*limit) of the matching items in
\* order, and pages 1..totalPages together are the matching items.
PaginationContract ==
  (Returned("list") /\ last.read = Stored /\ file.kind = "json"
     /\ calls = EmptyBag /\ (last.alone \/ last.ev = "served"))
    => LET c == last.read.v
           req == last.req
           want == Matching(c, req)
           P == PageNum(req)
           L == LimitNum(req)
           r == last.ret
           upTo == IF P * L < Len(want) THEN P * L ELSE Len(want)
       IN /\ r.kind = "list"
          /\ r.pg.total = Len(want)
          /\ r.pg.totalPages * L >= Len(want)
          /\ (r.pg.totalPages - 1) * L < Len(want)
          /\ r.pg.hasNext = (P < r.pg.totalPages)
          /\ r.pg.hasPrev = (P > 1)
          /\ r.data.v = [k \in 1..(upTo - (P - 1) * L) |->
                           want[(P - 1) * L + k]]
          /\ PagesUpTo(c, req, r.pg.totalPages) = want

\* C21: every notification fs.watch emits for the file, a 'change' or a
\* 'rename', makes the callback stat the file: after each modification of
\* the watched file a callback is due or under way that will compare the
\* mtime with lastFileMtime.
EveryNotificationChecked ==
  [][(watching /\ fileMtime' # fileMtime)
       => (pending' \/ Len(callbacks') > Len(callbacks))]_vars

Failing(c) ==
  \/ c.pc \in {"parse", "assign", "written", "wassign"} /\ ~c.io.ok
  \/ c.pc = "parse" /\ ~Parses(c.io.content)

\* The number of handlers of b suspended where c is: in the same operation
\* on the same data, at the same await, with the same outcome of the fs
\* call.
Suspended(c, b) ==
  CopiesIn(<<c.op, c.pc, c.io, c.data, c.item>>,
           BagOfAll(LAMBDA x : <<x.op, x.pc, x.io, x.data, x.item>>, b))

\* The step resumes handler c, whose awaited fs call failed, and ends the
\* call with that error: c is gone from the suspended handlers and no
\* further fs call is issued for it.
Propagates(c) ==
  (Failing(c) /\ Suspended(c, calls') < Suspended(c, calls))
    => /\ last'.ev = "done"
       /\ last'.op = c.op
       /\ last'.ret = Threw(IF c.pc = "parse" /\ c.io.ok
                              THEN "decodeerror" ELSE "ioerror")
       /\ BagCardinality(calls') = BagCardinality(calls) - 1

\* The step resumes initFileWatcher after its fs.stat failed.
InitStatFailed ==
  /\ initPc = "assign"
  /\ ~initIo.ok
  /\ initPc' = "done"

\* C23 as stated: every failure of the store is reported to a caller,
\* except in the handling of a notification: a failed fs call of readData,
\* writeData or GET /api/stats ends that call with the error and is not
\* retried, and a failed fs.stat of initFileWatcher is reported too.
FailuresNeverSwallowed ==
  [][/\ \A c \in InFlight : Propagates(c)
     /\ InitStatFailed => last'.ret.kind \in {"ioerror", "decodeerror"}]_vars

\* C23, amended: a failed fs call of readData, writeData or GET /api/stats
\* ends that call with the error and is not retried; the failures that
\* nobody hears of are a failed fs.stat in the handling of a notification,
\* after which the cache is empty, and the failed fs.stat of
\* initFileWatcher, after which lastFileMtime stays unset; neither fails a
\* suspended handler.
FailuresPropagate ==
  [][/\ \A c \in InFlight : Propagates(c)
     /\ \A i \in 1..Len(callbacks) :
          (Handles(i) /\ ~callbacks[i].ok)
            => /\ last'.ret = NoReturn
               /\ ~cachedData'.present
               /\ BagCardinality(calls') = BagCardinality(calls)
     /\ InitStatFailed
          => /\ last'.ret = NoReturn
             /\ UNCHANGED <<cachedData, lastFileMtime>>
             /\ BagCardinality(calls') = BagCardinality(calls)]_vars

\* GET /api/stats has failed with the parse error of the malformed file.
FailuresPropagateWitness ==
  /\ Returned("stats")
  /\ last.ret = Threw("decodeerror")
  /\ file.kind = "bad"

\* The records of the file, none when it is missing or malformed.
Persisted == IF Parses(file) THEN Parse(file) ELSE << >>

\* C24: the step in which the fs.writeFile of a POST takes effect replaces
\* the file with the collection that POST read plus its own record,
\* whatever another POST has stored meanwhile (no compare-and-swap); once
\* two POSTs have been answered with 201 and no handler is suspended, the
\* file holds the initial records followed by one or by both of the
\* created records.
LastWriteWins ==
  [][/\ \A c \in InFlight :
          (c.op = "create" /\ c.pc = "writeFile"
             /\ Suspended(c, calls') < Suspended(c, calls))
            => /\ Persisted' = c.data
               /\ c.data[Len(c.data)] = c.item
     /\ (hist'.created = 2 /\ calls' = EmptyBag)
          => /\ Len(Persisted') \in {MaxLen + 1, MaxLen + 2}
             /\ \A i \in 1..MaxLen : Persisted'[i] = Item(i)]_vars

\* Two POSTs with different ids have both been answered with 201 and the
\* file holds the initial records and one more.
LostUpdate ==
  /\ hist.created = 2
  /\ calls = EmptyBag
  /\ Returned("create")
  /\ last.ret.kind = "created"
  /\ Len(Persisted) = MaxLen + 1
  /\ \A i \in 1..MaxLen : Persisted[i] = Item(i)
  /\ Persisted[MaxLen + 1].id # last.ret.data.v[1].id

\* C25: lastFileMtime never goes from the mtime of a later version of the
\* file back to the mtime of an earlier one.
TokenMonotone ==
  [][(lastFileMtime.set /\ lastFileMtime'.set)
       => lastFileMtime'.t >= lastFileMtime.t]_vars

\* What a readData called now, with nothing else running, returns: the
\* cached collection (L54-56), or what it loads from the file (L58-62).
ReadWould ==
  IF cachedData.present THEN ReturnedData(cachedData)
  ELSE IF file.kind = "nofile" THEN Threw("ioerror")
  ELSE IF ~Parses(file) THEN Threw("decodeerror")
  ELSE ReturnedData(SomeData(Parse(file)))

\* What a GET /api/stats called now, with nothing else running, answers:
\* the aggregate it keeps (L302-307) or the one it computes from what
\* readData returns (L308).
StatsWould ==
  IF cachedStats.present /\ cachedStatsMtime = SameRef
    THEN ReturnedStats(cachedStats)
  ELSE IF ReadWould.kind = "data" THEN CalculateStats(ReadWould.data)
  ELSE ReadWould

\* C26: when nothing is in progress, GET /api/stats answers with the
\* aggregate of the collection readData returns in that state, and fails
\* when readData fails.
DerivedNeverStaler ==
  Quiescent
    => StatsWould = IF ReadWould.kind = "data"
                      THEN CalculateStats(ReadWould.data)
                      ELSE ReadWould

\* How many times the record x is in the collection d.
Occurs(x, d) == Cardinality({i \in 1..Len(d) : d[i] = x})

\* C27: a collection readData returns holds the record of a POST whose
\* fs.writeFile has not taken effect no more often than the file holds it.
UnpersistedNotVisible ==
  (Returned("read") /\ last.ret.kind = "data" /\ last.ret.data.present)
    => \A c \in InFlight :
         (c.op = "create" /\ c.pc = "writeFile")
           => Occurs(c.item, last.ret.data.v) <= Occurs(c.item, Persisted)

\* C28: once every POST has been answered, the ids of the records in the
\* file are pairwise distinct.
CreatedIdsUnique ==
  calls = EmptyBag
    => \A i, j \in 1..Len(Persisted) :
         Persisted[i].id = Persisted[j].id => i = j

\* GET /api/stats failed in the latest step because the file could not be
\* read or parsed.
StatsFailed ==
  /\ last.op = "stats"
  /\ last.ev = "done"
  /\ last.ret.kind \in {"ioerror", "decodeerror"}

\* C29: a GET /api/stats that fails because the file cannot be read or
\* parsed assigns nothing to cachedStats, the aggregate cached for an
\* earlier Date was dropped when it began, and the GET /api/stats that
\* follows it computes the aggregate anew from the file: it issues the
\* fs.readFile of readData.
FailedGetCachesNothing ==
  [][/\ StatsFailed' => cachedStats' = cachedStats
     /\ (BeganNow("stats")' /\ last'.ev = "start")
          => ~cachedStats'.present
     /\ (StatsFailed /\ BeganNow("stats")')
          => /\ last'.ev = "start"
             /\ \E c \in BagToSet(calls') :
                  c.op = "stats" /\ c.pc = "readFile"]_vars

\* C30: while a fetchItems call whose signal is not aborted is suspended at
\* one of its awaits, loading is true.
LoadingTracksLiveRequest ==
  (\E i \in DOMAIN fetches :
     ~fetches[i].aborted /\ fetches[i].pc \in {"fetch", "json"})
    => loading

====
